---------------------------- MODULE Spec2Model ----------------------------
(***************************************************************************)
(* A model of ifo (src/ifo.py, src/api.py, src/geocoding.py): the          *)
(* coordinate validator, the bounding-box builder, the state-vector       *)
(* normalizer, the two HTTP clients and the command-line entry point.     *)
(*                                                                         *)
(* Text is a sequence of one-character strings.  A number of degrees is   *)
(* an integer count of units, Scale units to the degree.  Of the          *)
(* program's binary floating point the model keeps one effect, the loss    *)
(* of an addend smaller than the spacing of the floats: around zero every  *)
(* count of units is a float, from Fine units on only the multiples of     *)
(* Fine are, and a sum is rounded to the nearest float.  The decimal       *)
(* texts and the half-degree grid are multiples of Fine, on which the      *)
(* sums are exact as they are in the program; a radius of fewer than Fine  *)
(* units is what a radius such as 1e-17 is to the program: a float, and    *)
(* lost when added to a center that is not zero.  The spacing does not     *)
(* grow with the magnitude as it does in the program, so the model says    *)
(* nothing about how far a rounded sum of two floats of like magnitude is  *)
(* from the exact one, and no property here depends on that.               *)
(* A JSON / Python value is a tagged record: Null, Num(n), Str(s),        *)
(* Bool(b), List(l), Dict(d), so that "absent" and zero are different     *)
(* values; each type keeps its content in a field of its own.             *)
(***************************************************************************)
EXTENDS Integers, Sequences, FiniteSets, TLC

VARIABLES
    call,       \* the pending call of one function: its name and arguments
    result,     \* what that call returned or raised
    pc,         \* main(): the position in the function
    args,       \* main(): the parsed command line (coords, place, radius)
    env,        \* the two upstream services' answers in this run
    loc,        \* main(): lat, lon, location_name once resolved
    box,        \* main(): the bounding box once built
    aircraft,   \* main(): the list get_aircraft_in_area returned
    after,      \* main(): where control goes when the open with-block exits
    exc,        \* main(): the exception in flight
    geoSession, \* the Geocoder's requests.Session: "none", "open", "closed"
    apiSession, \* the OpenSkyAPI's requests.Session
    geoRequests,\* the GET /search requests issued, in order
    apiRequests,\* the GET /states/all requests issued, in order
    stdout,     \* the lines printed to standard output
    stderr,     \* the lines printed to the error stream
    ret,        \* main(): the value returned
    now,        \* time.time(), in ticks
    lockOwner,  \* the thread holding Geocoder._lock, or NoThread
    lastRequestTime, \* Geocoder._last_request_time
    thread,     \* each thread calling geocode: its position and locals
    sentAt      \* the time of each GET /search issued by the shared Geocoder

vars == <<call, result, pc, args, env, loc, box, aircraft, after, exc,
          geoSession, apiSession, geoRequests, apiRequests, stdout, stderr, ret,
          now, lockOwner, lastRequestTime, thread, sentAt>>

rateVars == <<now, lockOwner, lastRequestTime, thread, sentAt>>

mainOther == <<pc, args, env, loc, box, aircraft, after, exc,
               geoSession, apiSession, apiRequests, stdout, stderr, ret>>

mainVars == <<pc, args, env, loc, box, aircraft, after, exc,
              geoSession, apiSession, geoRequests, apiRequests, stdout, stderr, ret>>

-----------------------------------------------------------------------------
(* Bounds of the model *)

\* the longest coordinate text enumerated for parse_coordinates
MaxLen == 5
\* the number of decimal places a number of degrees carries
FracDigits == 1
\* the largest radius enumerated, in half degrees
MaxRadius == 3

\* the longest callsign enumerated
MaxCallsign == 3
\* the number of positions at which a record differs from the full record
MaxVaried == 2
\* how many positions short of the protocol's width a record can be
MaxShort == 2

\* the most blanks enumerated on each side of a place name
MaxPad == 2

\* the most records in an area answer given to main
MaxStates == 2

\* the number of floats strictly between zero and half the spacing of the
\* floats away from zero
TinySteps == 1

\* the threads that share one Geocoder
NumThreads == 2
\* the most calls of geocode one thread makes
MaxCalls == 2
\* the clock ticks in one second
TicksPerSecond == 2
\* the seconds of clock time explored after the first
MaxSeconds == 2

(* Program constants *)

LatLimit == 90
LonLimit == 180
STATE_LEN == 17
MAX_PLACE_LENGTH == 200

RECURSIVE Pow10(_)
Pow10(n) == IF n = 0 THEN 1 ELSE 10 * Pow10(n - 1)

\* the spacing, in units, of the floats away from zero
Fine == 2 * TinySteps + 1

\* the units in the last decimal place kept, and in one degree
Decimal == Fine
Scale == Pow10(FracDigits) * Decimal
Half == Scale \div 2

Abs(x) == IF x < 0 THEN 0 - x ELSE x

\* the float nearest to an exact sum x: exact below Fine units and on the
\* multiples of Fine, which is all an addend of fewer than Fine units needs
FloatRound(x) ==
    IF Abs(x) < Fine THEN x
    ELSE LET over == Abs(x) % Fine
             near == IF 2 * over > Fine THEN Abs(x) - over + Fine ELSE Abs(x) - over
         IN  IF x < 0 THEN 0 - near ELSE near

\* a + b and a - b of two floats
fadd(a, b) == FloatRound(a + b)
fsub(a, b) == FloatRound(a - b)

-----------------------------------------------------------------------------
(* Python values *)

Null == [t |-> "null"]
Num(n) == [t |-> "num", n |-> n]
Str(s) == [t |-> "str", s |-> s]
Bool(b) == [t |-> "bool", b |-> b]
List(s) == [t |-> "list", l |-> s]
Dict(d) == [t |-> "dict", d |-> d]

IsNull(x) == x.t = "null"

\* bool(x): None, "", 0, False, [] and {} are falsy
Truthy(x) ==
    CASE x.t = "null" -> FALSE
      [] x.t = "str" -> Len(x.s) > 0
      [] x.t = "list" -> Len(x.l) > 0
      [] x.t = "dict" -> DOMAIN x.d # {}
      [] x.t = "num" -> x.n # 0
      [] x.t = "bool" -> x.b

Whitespace == {" "}

\* str.strip(): the text from its first to its last non-whitespace character
Strip(s) ==
    LET solid == {i \in 1..Len(s) : s[i] \notin Whitespace}
    IN  IF solid = {} THEN <<>>
        ELSE SubSeq(s, CHOOSE i \in solid : \A j \in 1..(i - 1) : s[j] \in Whitespace,
                       CHOOSE i \in solid : \A j \in (i + 1)..Len(s) : s[j] \in Whitespace)

\* str.split(','): one more part than there are commas
RECURSIVE SplitFrom(_, _, _)
SplitFrom(s, i, cur) ==
    IF i > Len(s) THEN <<cur>>
    ELSE IF s[i] = "," THEN <<cur>> \o SplitFrom(s, i + 1, <<>>)
    ELSE SplitFrom(s, i + 1, Append(cur, s[i]))

Split(s) == SplitFrom(s, 1, <<>>)

DigitChars == {"0", "1", "2", "3", "4", "5", "6", "7", "8", "9"}

DigitVal(c) ==
    CASE c = "0" -> 0 [] c = "1" -> 1 [] c = "2" -> 2 [] c = "3" -> 3
      [] c = "4" -> 4 [] c = "5" -> 5 [] c = "6" -> 6 [] c = "7" -> 7
      [] c = "8" -> 8 [] c = "9" -> 9

Count(s, S) == Cardinality({i \in 1..Len(s) : s[i] \in S})

\* the text after an optional sign
Unsigned(t) == IF t # <<>> /\ Head(t) \in {"-", "+"} THEN Tail(t) ELSE t

\* float(text) accepts: optional blanks, optional sign, digits with at most one
\* point and at least one digit (no exponent, inf, nan or underscore can be
\* written in the model's alphabet)
IsFloatText(s) ==
    LET u == Unsigned(Strip(s))
    IN  /\ \A i \in 1..Len(u) : u[i] \in DigitChars \cup {"."}
        /\ Count(u, {"."}) <= 1
        /\ Count(u, DigitChars) >= 1

RECURSIVE DigitsValue(_)
DigitsValue(d) ==
    IF d = <<>> THEN 0 ELSE 10 * DigitsValue(SubSeq(d, 1, Len(d) - 1)) + DigitVal(d[Len(d)])

PointAt(u) == IF \E i \in 1..Len(u) : u[i] = "."
              THEN CHOOSE i \in 1..Len(u) : u[i] = "."
              ELSE Len(u) + 1

\* the digits written after the point
FracPart(s) ==
    LET u == Unsigned(Strip(s))
    IN  SubSeq(u, PointAt(u) + 1, Len(u))

\* the value of float(text), in units
FloatValue(s) ==
    LET t == Strip(s)
        u == Unsigned(t)
        ip == SubSeq(u, 1, PointAt(u) - 1)
        fp == FracPart(s)
        mag == DigitsValue(ip) * Scale
               + DigitsValue(fp) * Pow10(FracDigits - Len(fp)) * Decimal
    IN  IF t # <<>> /\ Head(t) = "-" THEN 0 - mag ELSE mag

\* float(text) is the negative zero, -0.0: a zero written with a minus sign
IsNegativeZero(s) == FloatValue(s) = 0 /\ Strip(s) # <<>> /\ Head(Strip(s)) = "-"

-----------------------------------------------------------------------------
(* src/ifo.py *)

Raised(type, cause) == [ok |-> FALSE, type |-> type, cause |-> cause]

parse_coordinates_lat_in_range(lat) == (0 - LatLimit) * Scale <= lat /\ lat <= LatLimit * Scale

parse_coordinates_lon_in_range(lon) == (0 - LonLimit) * Scale <= lon /\ lon <= LonLimit * Scale

\* a plausible slip: the range checks made before the longitude is parsed
parse_coordinates_RangeBeforeParse(coord_str) ==
    LET parts == Split(coord_str)
    IN  IF Len(parts) # 2 THEN Raised("ValueError", "format")
        ELSE IF ~IsFloatText(parts[1]) THEN Raised("ValueError", "lat_parse")
        ELSE IF ~parse_coordinates_lat_in_range(FloatValue(parts[1]))
             THEN Raised("ValueError", "lat_range")
        ELSE IF ~IsFloatText(parts[2]) THEN Raised("ValueError", "lon_parse")
        ELSE IF ~parse_coordinates_lon_in_range(FloatValue(parts[2]))
             THEN Raised("ValueError", "lon_range")
        ELSE [ok |-> TRUE, lat |-> FloatValue(parts[1]), lon |-> FloatValue(parts[2]),
              lat_negzero |-> IsNegativeZero(parts[1]),
              lon_negzero |-> IsNegativeZero(parts[2])]

\* the tuple (lat, lon); a zero keeps the sign it was written with
parse_coordinates(coord_str) ==
    LET parts == Split(coord_str)
    IN  IF Len(parts) # 2 THEN Raised("ValueError", "format")
        ELSE IF ~IsFloatText(parts[1]) THEN Raised("ValueError", "lat_parse")
        ELSE IF ~IsFloatText(parts[2]) THEN Raised("ValueError", "lon_parse")
        ELSE LET lat == FloatValue(parts[1])
                 lon == FloatValue(parts[2])
             IN  IF ~parse_coordinates_lat_in_range(lat) THEN Raised("ValueError", "lat_range")
                 ELSE IF ~parse_coordinates_lon_in_range(lon) THEN Raised("ValueError", "lon_range")
                 ELSE [ok |-> TRUE, lat |-> lat, lon |-> lon,
                       lat_negzero |-> IsNegativeZero(parts[1]),
                       lon_negzero |-> IsNegativeZero(parts[2])]

max2(a, b) == IF a >= b THEN a ELSE b
min2(a, b) == IF a <= b THEN a ELSE b

\* a plausible slip: the longitude clamped to the latitude's limit
create_bounding_box_LonClampedAtLat(lat, lon, radius_deg) ==
    <<max2((0 - LatLimit) * Scale, fsub(lat, radius_deg)),
      max2((0 - LatLimit) * Scale, fsub(lon, radius_deg)),
      min2(LatLimit * Scale, fadd(lat, radius_deg)),
      min2(LatLimit * Scale, fadd(lon, radius_deg))>>

\* a plausible slip: the upper bounds left unclamped
create_bounding_box_NoUpperClamp(lat, lon, radius_deg) ==
    <<max2((0 - LatLimit) * Scale, fsub(lat, radius_deg)),
      max2((0 - LonLimit) * Scale, fsub(lon, radius_deg)),
      fadd(lat, radius_deg),
      fadd(lon, radius_deg)>>

\* a plausible slip: the limits exchanged between the lower and the upper bounds
create_bounding_box_LimitsExchanged(lat, lon, radius_deg) ==
    <<min2(LatLimit * Scale, fsub(lat, radius_deg)),
      min2(LonLimit * Scale, fsub(lon, radius_deg)),
      max2((0 - LatLimit) * Scale, fadd(lat, radius_deg)),
      max2((0 - LonLimit) * Scale, fadd(lon, radius_deg))>>

\* the tuple (lat_min, lon_min, lat_max, lon_max)
create_bounding_box(lat, lon, radius_deg) ==
    <<max2((0 - LatLimit) * Scale, fsub(lat, radius_deg)),
      max2((0 - LonLimit) * Scale, fsub(lon, radius_deg)),
      min2(LatLimit * Scale, fadd(lat, radius_deg)),
      min2(LonLimit * Scale, fadd(lon, radius_deg))>>

-----------------------------------------------------------------------------
(* src/api.py *)

\* state[i], with Python's index from 0
At(state, i) == state[i + 1]

RaisedLength(got) ==
    [ok |-> FALSE, type |-> "ValueError", cause |-> "state_length",
     expected |-> STATE_LEN, got |-> got]

Returned(value) == [ok |-> TRUE, value |-> value]

\* state[1].strip() if state[1] else None
parse_callsign(c) ==
    IF ~Truthy(c) THEN Returned(Null)
    ELSE IF c.t = "str" THEN Returned(Str(Strip(c.s)))
    ELSE Raised("AttributeError", "strip")

\* a plausible slip: longitude and latitude read from each other's position
parse_state_vector_LatLonSwapped(state) ==
    IF Len(state) < STATE_LEN THEN RaisedLength(Len(state))
    ELSE IF ~parse_callsign(At(state, 1)).ok THEN parse_callsign(At(state, 1))
    ELSE Returned([icao24 |-> At(state, 0),
                   callsign |-> parse_callsign(At(state, 1)).value,
                   origin_country |-> At(state, 2),
                   longitude |-> At(state, 6),
                   latitude |-> At(state, 5),
                   baro_altitude |-> At(state, 7),
                   on_ground |-> At(state, 8),
                   velocity |-> At(state, 9),
                   true_track |-> At(state, 10),
                   vertical_rate |-> At(state, 11),
                   geo_altitude |-> At(state, 13),
                   squawk |-> At(state, 14)])

\* OpenSkyAPI._parse_state_vector
parse_state_vector(state) ==
    IF Len(state) < STATE_LEN THEN RaisedLength(Len(state))
    ELSE IF ~parse_callsign(At(state, 1)).ok THEN parse_callsign(At(state, 1))
    ELSE Returned([icao24 |-> At(state, 0),
                   callsign |-> parse_callsign(At(state, 1)).value,
                   origin_country |-> At(state, 2),
                   longitude |-> At(state, 5),
                   latitude |-> At(state, 6),
                   baro_altitude |-> At(state, 7),
                   on_ground |-> At(state, 8),
                   velocity |-> At(state, 9),
                   true_track |-> At(state, 10),
                   vertical_rate |-> At(state, 11),
                   geo_altitude |-> At(state, 13),
                   squawk |-> At(state, 14)])

\* a plausible slip: a record that cannot be parsed is skipped
RECURSIVE parse_states_SkipBad(_)
parse_states_SkipBad(states) ==
    IF states = <<>> THEN Returned(<<>>)
    ELSE LET first == parse_state_vector(Head(states))
             rest == parse_states_SkipBad(Tail(states))
         IN  IF ~first.ok THEN rest ELSE Returned(<<first.value>> \o rest.value)

\* the parsing loop of get_aircraft_in_area: the first record that fails ends it
RECURSIVE parse_states(_)
parse_states(states) ==
    IF states = <<>> THEN Returned(<<>>)
    ELSE LET first == parse_state_vector(Head(states))
         IN  IF ~first.ok THEN first
             ELSE LET rest == parse_states(Tail(states))
                  IN  IF ~rest.ok THEN rest
                      ELSE Returned(<<first.value>> \o rest.value)

\* the four checks of the bounding box, in the order the code makes them
validate_bounding_box(lat_min, lon_min, lat_max, lon_max) ==
    IF ~(/\ (0 - LatLimit) * Scale <= lat_min /\ lat_min <= LatLimit * Scale
         /\ (0 - LatLimit) * Scale <= lat_max /\ lat_max <= LatLimit * Scale)
    THEN Raised("ValueError", "lat_range")
    ELSE IF ~(/\ (0 - LonLimit) * Scale <= lon_min /\ lon_min <= LonLimit * Scale
              /\ (0 - LonLimit) * Scale <= lon_max /\ lon_max <= LonLimit * Scale)
    THEN Raised("ValueError", "lon_range")
    ELSE IF lat_min >= lat_max THEN Raised("ValueError", "lat_order")
    ELSE IF lon_min >= lon_max THEN Raised("ValueError", "lon_order")
    ELSE Returned(Null)

area_params(lat_min, lon_min, lat_max, lon_max) ==
    [lamin |-> lat_min, lomin |-> lon_min, lamax |-> lat_max, lomax |-> lon_max]

\* what follows the request: raise_for_status, response.json(), the parsing loop
area_response(response) ==
    IF response.kind = "error" THEN Raised("RequestException", "transport")
    ELSE IF ~Truthy(response.states) THEN Returned(<<>>)
    ELSE parse_states(response.states.l)

\* a plausible slip: the order checks made before the range checks
get_aircraft_in_area_OrderFirst(lat_min, lon_min, lat_max, lon_max, response) ==
    IF lat_min >= lat_max THEN [out |-> Raised("ValueError", "lat_order"), requests |-> <<>>]
    ELSE IF lon_min >= lon_max THEN [out |-> Raised("ValueError", "lon_order"), requests |-> <<>>]
    ELSE IF ~validate_bounding_box(lat_min, lon_min, lat_max, lon_max).ok
    THEN [out |-> validate_bounding_box(lat_min, lon_min, lat_max, lon_max), requests |-> <<>>]
    ELSE [out |-> area_response(response),
          requests |-> <<area_params(lat_min, lon_min, lat_max, lon_max)>>]

\* a plausible slip: the request sent a second time when the service fails
get_aircraft_in_area_RetryOnce(lat_min, lon_min, lat_max, lon_max, response) ==
    IF ~validate_bounding_box(lat_min, lon_min, lat_max, lon_max).ok
    THEN [out |-> validate_bounding_box(lat_min, lon_min, lat_max, lon_max), requests |-> <<>>]
    ELSE [out |-> area_response(response),
          requests |-> IF response.kind = "error"
                       THEN <<area_params(lat_min, lon_min, lat_max, lon_max),
                              area_params(lat_min, lon_min, lat_max, lon_max)>>
                       ELSE <<area_params(lat_min, lon_min, lat_max, lon_max)>>]

\* OpenSkyAPI.get_aircraft_in_area: what it returns or raises, and the requests
\* it issued, given the upstream service's answer
get_aircraft_in_area(lat_min, lon_min, lat_max, lon_max, response) ==
    IF ~validate_bounding_box(lat_min, lon_min, lat_max, lon_max).ok
    THEN [out |-> validate_bounding_box(lat_min, lon_min, lat_max, lon_max), requests |-> <<>>]
    ELSE [out |-> area_response(response),
          requests |-> <<area_params(lat_min, lon_min, lat_max, lon_max)>>]

-----------------------------------------------------------------------------
(* src/geocoding.py *)

\* float(x) of a JSON value: a number, the text of a number, or a boolean,
\* which is the integer 1 or 0
py_float(x) ==
    IF x.t = "num" THEN Returned(x.n)
    ELSE IF x.t = "bool" THEN Returned(IF x.b THEN Scale ELSE 0)
    ELSE IF x.t = "str"
         THEN IF IsFloatText(x.s) THEN Returned(FloatValue(x.s)) ELSE Raised("ValueError", "float")
    ELSE Raised("TypeError", "float")

\* a plausible slip: the first result read without the test for an empty list
geocode_response_NoEmptyTest(response) ==
    IF response.kind = "error" THEN Raised("RequestException", "transport")
    ELSE IF ~Truthy(response.data) THEN Raised("IndexError", "data[0]")
    ELSE LET r == Head(response.data.l)
         IN  IF ~({"lat", "lon", "display_name"} \subseteq DOMAIN r)
             THEN Raised("ValueError", "response_format")
             ELSE IF ~py_float(r.lat).ok THEN py_float(r.lat)
             ELSE IF ~py_float(r.lon).ok THEN py_float(r.lon)
             ELSE Returned(Dict([lat |-> py_float(r.lat).value,
                                 lon |-> py_float(r.lon).value,
                                 display_name |-> r.display_name]))

\* what follows the request: raise_for_status, response.json(), the first result
geocode_response(response) ==
    IF response.kind = "error" THEN Raised("RequestException", "transport")
    ELSE IF ~Truthy(response.data) THEN Returned(Null)
    ELSE LET r == Head(response.data.l)
         IN  IF ~({"lat", "lon", "display_name"} \subseteq DOMAIN r)
             THEN Raised("ValueError", "response_format")
             ELSE IF ~py_float(r.lat).ok THEN py_float(r.lat)
             ELSE IF ~py_float(r.lon).ok THEN py_float(r.lon)
             ELSE Returned(Dict([lat |-> py_float(r.lat).value,
                                 lon |-> py_float(r.lon).value,
                                 display_name |-> r.display_name]))

geocode_params(place) == [q |-> Strip(place.s), format |-> "json", limit |-> 1]

\* 1.0 second, in ticks of the clock
Second == TicksPerSecond

\* lines 51-55: the checks of the place name
validate_place(place) ==
    IF ~Truthy(place) \/ Strip(place.s) = <<>> THEN Raised("ValueError", "place_empty")
    ELSE IF Len(place.s) > MAX_PLACE_LENGTH THEN Raised("ValueError", "place_too_long")
    ELSE Returned(Null)

\* lines 58-62 run by one thread alone: the time at which a call that reads
\* the clock at `clock` records its timestamp, after the sleep if it sleeps
geocode_stamp_time(clock, last_request_time) ==
    IF clock - last_request_time < Second
    THEN clock + (Second - (clock - last_request_time))
    ELSE clock

\* a plausible slip: the length limit applied to the trimmed name
geocode_LengthAfterStrip(place, response, clock, last_request_time) ==
    IF ~Truthy(place) \/ Strip(place.s) = <<>>
    THEN [out |-> Raised("ValueError", "place_empty"), requests |-> <<>>,
          clock |-> clock, last_request_time |-> last_request_time]
    ELSE IF Len(Strip(place.s)) > MAX_PLACE_LENGTH
    THEN [out |-> Raised("ValueError", "place_too_long"), requests |-> <<>>,
          clock |-> clock, last_request_time |-> last_request_time]
    ELSE [out |-> geocode_response(response), requests |-> <<geocode_params(place)>>,
          clock |-> geocode_stamp_time(clock, last_request_time),
          last_request_time |-> geocode_stamp_time(clock, last_request_time)]

\* Geocoder.geocode called by one thread alone: what it returns or raises, the
\* requests it issued, the time at which it issued them and the timestamp it
\* left in _last_request_time, given the upstream service's answer
geocode(place, response, clock, last_request_time) ==
    IF ~validate_place(place).ok
    THEN [out |-> validate_place(place), requests |-> <<>>,
          clock |-> clock, last_request_time |-> last_request_time]
    ELSE [out |-> geocode_response(response), requests |-> <<geocode_params(place)>>,
          clock |-> geocode_stamp_time(clock, last_request_time),
          last_request_time |-> geocode_stamp_time(clock, last_request_time)]

-----------------------------------------------------------------------------
(* src/geocoding.py: the rate limiter of geocode, one step per statement *)

Threads == 1..NumThreads
NoThread == 0

\* the last tick of the clock that is explored
MaxTime == (1 + MaxSeconds) * Second

\* the place names the threads look up: a name, and a blank one
RatePlaces == {Str(<<"a">>), Str(<<" ">>)}

\* the service's answers to the threads: a transport failure, no match, a match
RateResponses ==
    {[kind |-> "error"],
     [kind |-> "json", data |-> List(<<>>)],
     [kind |-> "json",
      data |-> List(<<[lat |-> Str(<<"1">>), lon |-> Str(<<"1">>),
                       display_name |-> Str(<<"A">>)]>>)]}

\* a thread before any call of geocode
ThreadStart ==
    [pc |-> "idle", calls |-> 0, place |-> Null, time_since_last |-> 0, wake |-> 0,
     out |-> Null]

\* Geocoder.__init__: no request yet, the lock free; the clock is past the
\* first second of its epoch
RateIdle ==
    /\ now = Second
    /\ lockOwner = NoThread
    /\ lastRequestTime = 0
    /\ thread = [t \in Threads |-> ThreadStart]
    /\ sentAt = <<>>

\* a thread calls geocode(place): lines 51-55 reject the name, or let it pass
GeocodeEnter(t) ==
    /\ thread[t].pc = "idle"
    /\ thread[t].calls < MaxCalls
    /\ \E place \in RatePlaces :
          IF ~validate_place(place).ok
          THEN thread' = [thread EXCEPT ![t].out = validate_place(place),
                                        ![t].calls = thread[t].calls + 1]
          ELSE thread' = [thread EXCEPT ![t].place = place, ![t].pc = "acquire"]
    /\ UNCHANGED <<now, lockOwner, lastRequestTime, sentAt, call, result, mainVars>>

\* with self._lock: the thread waits until the lock is free and takes it
GeocodeAcquire(t) ==
    /\ thread[t].pc = "acquire"
    /\ lockOwner = NoThread
    /\ lockOwner' = t
    /\ thread' = [thread EXCEPT ![t].pc = "measure"]
    /\ UNCHANGED <<now, lastRequestTime, sentAt, call, result, mainVars>>

\* time_since_last = time.time() - self._last_request_time, and the test on it
GeocodeMeasure(t) ==
    /\ thread[t].pc = "measure"
    /\ LET time_since_last == now - lastRequestTime
       IN  thread' = [thread EXCEPT
                        ![t].time_since_last = time_since_last,
                        ![t].pc = IF time_since_last < Second THEN "sleep" ELSE "stamp",
                        ![t].wake = IF time_since_last < Second
                                    THEN now + (Second - time_since_last)
                                    ELSE thread[t].wake]
    /\ UNCHANGED <<now, lockOwner, lastRequestTime, sentAt, call, result, mainVars>>

\* time.sleep(1.0 - time_since_last) returns, no sooner than asked
GeocodeWake(t) ==
    /\ thread[t].pc = "sleep"
    /\ now >= thread[t].wake
    /\ thread' = [thread EXCEPT ![t].pc = "stamp"]
    /\ UNCHANGED <<now, lockOwner, lastRequestTime, sentAt, call, result, mainVars>>

\* self._last_request_time = time.time(), and the end of the with-block
GeocodeStamp(t) ==
    /\ thread[t].pc = "stamp"
    /\ lastRequestTime' = now
    /\ lockOwner' = NoThread
    /\ thread' = [thread EXCEPT ![t].pc = "request"]
    /\ UNCHANGED <<now, sentAt, call, result, mainVars>>

\* self.session.get(...) sends the request, outside the lock, and waits
GeocodeSend(t) ==
    /\ thread[t].pc = "request"
    /\ sentAt' = Append(sentAt, now)
    /\ geoRequests' = Append(geoRequests, geocode_params(thread[t].place))
    /\ thread' = [thread EXCEPT ![t].pc = "in_flight"]
    /\ UNCHANGED <<now, lockOwner, lastRequestTime, call, result, mainOther>>

\* the answer arrives: lines 75-92, and the call returns or raises
GeocodeReturn(t) ==
    /\ thread[t].pc = "in_flight"
    /\ \E response \in RateResponses :
          thread' = [thread EXCEPT ![t].out = geocode_response(response),
                                   ![t].pc = "idle",
                                   ![t].calls = thread[t].calls + 1]
    /\ UNCHANGED <<now, lockOwner, lastRequestTime, sentAt, call, result, mainVars>>

\* the clock advances while the threads run, wait or sleep
Tick ==
    /\ now < MaxTime
    /\ now' = now + 1
    /\ UNCHANGED <<lockOwner, lastRequestTime, thread, sentAt, call, result, mainVars>>

-----------------------------------------------------------------------------
(* src/ifo.py: main *)

DigitChar(d) ==
    CASE d = 0 -> "0" [] d = 1 -> "1" [] d = 2 -> "2" [] d = 3 -> "3" [] d = 4 -> "4"
      [] d = 5 -> "5" [] d = 6 -> "6" [] d = 7 -> "7" [] d = 8 -> "8" [] d = 9 -> "9"

RECURSIVE NatText(_)
NatText(n) == IF n < 10 THEN <<DigitChar(n)>> ELSE Append(NatText(n \div 10), DigitChar(n % 10))

\* the digits of a fraction f of k decimal places, without trailing zeros
RECURSIVE FracText(_, _)
FracText(f, k) ==
    IF k = 0 \/ f = 0 THEN <<>>
    ELSE <<DigitChar(f \div Pow10(k - 1))>> \o FracText(f % Pow10(k - 1), k - 1)

\* str(x) of a float: sign, whole part, point, at least one decimal place
FloatText(n) ==
    LET mag == IF n < 0 THEN 0 - n ELSE n
        frac == FracText((mag % Scale) \div Decimal, FracDigits)
    IN  (IF n < 0 THEN <<"-">> ELSE <<>>) \o NatText(mag \div Scale) \o <<".">>
        \o (IF frac = <<>> THEN <<"0">> ELSE frac)

\* str(x) of a float that may be the negative zero
FloatRepr(n, negzero) == IF n = 0 /\ negzero THEN <<"-", "0", ".", "0">> ELSE FloatText(n)

\* f"{lat},{lon}" of what parse_coordinates returned
coords_name(r) ==
    Str(FloatRepr(r.lat, r.lat_negzero) \o <<",">> \o FloatRepr(r.lon, r.lon_negzero))

\* format(x, '.4f') succeeds on numbers, and raises on None
CanFormat(x) == x.t \in {"num", "bool"}

\* what it raises: ValueError on a string, TypeError on None and the rest
FormatError(x) == IF x.t = "str" THEN "ValueError" ELSE "TypeError"

Line(kind, v) == [line |-> kind, v |-> v]

\* the lines printed for one aircraft before the Position line
entry_head(ac) ==
    <<Line("Callsign", IF Truthy(ac.callsign) THEN ac.callsign ELSE Str(<<"N", "/", "A">>)),
      Line("ICAO24", ac.icao24),
      Line("Country", ac.origin_country)>>

\* one pass of the display loop: the lines printed, and what it raised if it
\* did
print_aircraft(ac) ==
    IF ~CanFormat(ac.latitude)
    THEN [ok |-> FALSE, type |-> FormatError(ac.latitude), lines |-> entry_head(ac)]
    ELSE IF ~CanFormat(ac.longitude)
    THEN [ok |-> FALSE, type |-> FormatError(ac.longitude), lines |-> entry_head(ac)]
    ELSE IF ~IsNull(ac.baro_altitude) /\ ~CanFormat(ac.baro_altitude)
    THEN [ok |-> FALSE, type |-> FormatError(ac.baro_altitude),
          lines |-> entry_head(ac) \o <<Line("Position", List(<<ac.latitude, ac.longitude>>))>>]
    ELSE IF ~IsNull(ac.velocity) /\ ~CanFormat(ac.velocity)
    THEN [ok |-> FALSE, type |-> FormatError(ac.velocity),
          lines |-> entry_head(ac) \o <<Line("Position", List(<<ac.latitude, ac.longitude>>))>>
                    \o (IF IsNull(ac.baro_altitude) THEN <<>>
                        ELSE <<Line("Altitude", ac.baro_altitude)>>)]
    ELSE [ok |-> TRUE, type |-> "none",
          lines |-> entry_head(ac) \o <<Line("Position", List(<<ac.latitude, ac.longitude>>))>>
                    \o (IF IsNull(ac.baro_altitude) THEN <<>>
                        ELSE <<Line("Altitude", ac.baro_altitude)>>)
                    \o (IF IsNull(ac.velocity) THEN <<>> ELSE <<Line("Velocity", ac.velocity)>>)
                    \o (IF Truthy(ac.on_ground) THEN <<Line("Status", Str(<<"O", "n">>))>> ELSE <<>>)
                    \o <<Line("", Null)>>]

\* the lines of the first n passes of the display loop
RECURSIVE print_first(_, _)
print_first(list, n) ==
    IF n = 0 THEN <<>> ELSE print_first(list, n - 1) \o print_aircraft(list[n]).lines

\* the display loop: it stops at the first aircraft whose lines cannot be formatted
print_all(list) ==
    LET bad == {i \in 1..Len(list) : ~print_aircraft(list[i]).ok}
    IN  IF bad = {}
        THEN [ok |-> TRUE, type |-> "none", lines |-> print_first(list, Len(list))]
        ELSE LET stop == CHOOSE i \in bad : \A j \in bad : i <= j
             IN  [ok |-> FALSE, type |-> print_aircraft(list[stop]).type,
                  lines |-> print_first(list, stop)]

\* if args.coords: lat, lon = parse_coordinates(args.coords)
MainParseCoords ==
    /\ pc = "start"
    /\ UNCHANGED rateVars
    /\ Truthy(args.coords)
    /\ LET r == parse_coordinates(args.coords.s)
       IN  IF r.ok
           THEN /\ loc' = [lat |-> r.lat, lon |-> r.lon, location_name |-> coords_name(r)]
                /\ pc' = "box"
                /\ exc' = exc
           ELSE /\ exc' = r
                /\ pc' = "except"
                /\ loc' = loc
    /\ UNCHANGED <<call, result, args, env, box, aircraft, after, geoSession, apiSession,
                   geoRequests, apiRequests, stdout, stderr, ret>>

\* else: with Geocoder(timeout=args.timeout) as geocoder
MainGeocoderEnter ==
    /\ pc = "start"
    /\ UNCHANGED rateVars
    /\ ~Truthy(args.coords)
    /\ geoSession' = "open"
    /\ pc' = "geocode"
    /\ UNCHANGED <<call, result, args, env, loc, box, aircraft, after, exc, apiSession,
                   geoRequests, apiRequests, stdout, stderr, ret>>

\* the body of the geocoder's with-block
MainGeocode ==
    /\ pc = "geocode"
    /\ UNCHANGED <<lockOwner, thread>>
    /\ LET g == geocode(args.place, env.geo, now, lastRequestTime)
       IN  /\ geoRequests' = geoRequests \o g.requests
           /\ now' = g.clock
           /\ lastRequestTime' = g.last_request_time
           /\ sentAt' = sentAt \o [i \in 1..Len(g.requests) |-> g.clock]
           /\ IF ~g.out.ok
              THEN /\ exc' = g.out
                   /\ after' = "except"
                   /\ UNCHANGED <<loc, stdout, stderr>>
              ELSE IF ~Truthy(g.out.value)
              THEN /\ stderr' = Append(stderr, Line("Error: Could not find location", args.place))
                   /\ after' = "return 1"
                   /\ UNCHANGED <<loc, stdout, exc>>
              ELSE /\ loc' = [lat |-> g.out.value.d.lat, lon |-> g.out.value.d.lon,
                              location_name |-> g.out.value.d.display_name]
                   /\ stdout' = Append(stdout, Line("Found location", g.out.value.d.display_name))
                   /\ after' = "box"
                   /\ UNCHANGED <<stderr, exc>>
    /\ pc' = "geo_exit"
    /\ UNCHANGED <<call, result, args, env, box, aircraft, geoSession, apiSession,
                   apiRequests, ret>>

\* a plausible slip: the session closed at the end of the block's body only,
\* not when the block is left by return or by an exception
MainGeocoderExit_CloseAtEndOnly ==
    /\ pc = "geo_exit"
    /\ UNCHANGED rateVars
    /\ geoSession' = IF after = "box" THEN "closed" ELSE geoSession
    /\ IF after = "return 1"
       THEN pc' = "done" /\ ret' = Num(1)
       ELSE pc' = after /\ ret' = ret
    /\ after' = "none"
    /\ UNCHANGED <<call, result, args, env, loc, box, aircraft, exc, apiSession,
                   geoRequests, apiRequests, stdout, stderr>>

\* Geocoder.__exit__, and where the block was left to
MainGeocoderExit ==
    /\ pc = "geo_exit"
    /\ UNCHANGED rateVars
    /\ geoSession' = "closed"
    /\ IF after = "return 1"
       THEN pc' = "done" /\ ret' = Num(1)
       ELSE pc' = after /\ ret' = ret
    /\ after' = "none"
    /\ UNCHANGED <<call, result, args, env, loc, box, aircraft, exc, apiSession,
                   geoRequests, apiRequests, stdout, stderr>>

\* lat_min, lon_min, lat_max, lon_max = create_bounding_box(lat, lon, args.radius)
MainCreateBox ==
    /\ pc = "box"
    /\ UNCHANGED rateVars
    /\ box' = List(create_bounding_box(loc.lat, loc.lon, args.radius))
    /\ pc' = "api_enter"
    /\ UNCHANGED <<call, result, args, env, loc, aircraft, after, exc, geoSession, apiSession,
                   geoRequests, apiRequests, stdout, stderr, ret>>

\* with OpenSkyAPI(timeout=args.timeout) as api
MainApiEnter ==
    /\ pc = "api_enter"
    /\ UNCHANGED rateVars
    /\ apiSession' = "open"
    /\ pc' = "query"
    /\ UNCHANGED <<call, result, args, env, loc, box, aircraft, after, exc, geoSession,
                   geoRequests, apiRequests, stdout, stderr, ret>>

\* aircraft = api.get_aircraft_in_area(lat_min, lon_min, lat_max, lon_max)
MainQuery ==
    /\ pc = "query"
    /\ UNCHANGED rateVars
    /\ LET q == get_aircraft_in_area(box.l[1], box.l[2], box.l[3], box.l[4], env.area)
       IN  /\ apiRequests' = apiRequests \o q.requests
           /\ IF q.out.ok
              THEN aircraft' = q.out.value /\ after' = "display" /\ exc' = exc
              ELSE aircraft' = aircraft /\ after' = "except" /\ exc' = q.out
    /\ pc' = "api_exit"
    /\ UNCHANGED <<call, result, args, env, loc, box, geoSession, apiSession,
                   geoRequests, stdout, stderr, ret>>

\* OpenSkyAPI.__exit__
MainApiExit ==
    /\ pc = "api_exit"
    /\ UNCHANGED rateVars
    /\ apiSession' = "closed"
    /\ pc' = after
    /\ after' = "none"
    /\ UNCHANGED <<call, result, args, env, loc, box, aircraft, exc, geoSession,
                   geoRequests, apiRequests, stdout, stderr, ret>>

\* Display results
MainDisplay ==
    /\ pc = "display"
    /\ UNCHANGED rateVars
    /\ IF aircraft = <<>>
       THEN /\ stdout' = Append(stdout, Line("No aircraft found near", loc.location_name))
            /\ ret' = Num(0)
            /\ pc' = "done"
            /\ exc' = exc
       ELSE LET shown == print_all(aircraft)
            IN  /\ stdout' = stdout \o <<Line("Found aircraft near", Num(Len(aircraft)))>>
                                   \o shown.lines
                /\ IF shown.ok
                   THEN ret' = Num(0) /\ pc' = "done" /\ exc' = exc
                   ELSE ret' = ret /\ pc' = "except" /\ exc' = Raised(shown.type, "format")
    /\ UNCHANGED <<call, result, args, env, loc, box, aircraft, after, geoSession, apiSession,
                   geoRequests, apiRequests, stderr>>

\* except ValueError / except Exception: print the error, return 1
MainExcept ==
    /\ pc = "except"
    /\ UNCHANGED rateVars
    /\ stderr' = Append(stderr, Line("Error", exc))
    /\ ret' = Num(1)
    /\ pc' = "done"
    /\ UNCHANGED <<call, result, args, env, loc, box, aircraft, after, exc, geoSession,
                   apiSession, geoRequests, apiRequests, stdout>>

-----------------------------------------------------------------------------
(* Inputs *)

Alphabet == {"0", "1", "8", "9", ",", "-", ".", " "}

Texts(n) == UNION {[1..k -> Alphabet] : k \in 0..n}

\* the texts whose numbers carry no more decimal places than the model keeps
CoordTexts ==
    {s \in Texts(MaxLen) :
        LET parts == Split(s)
        IN  \A i \in 1..Len(parts) :
                IsFloatText(parts[i]) => Len(FracPart(parts[i])) <= FracDigits}

\* the numbers at, half a degree and one degree on either side of the two ends
\* of a range, and zero
AroundLimits(limit) ==
    {0} \cup {sign * (limit * Scale + d) : sign \in {0 - 1, 1}, d \in {0 - Scale, 0 - Half, 0, Half, Scale}}

\* centers on the half-degree grid: around the origin and near each limit
GridNear(limit) ==
    {h * Half : h \in {k \in (0 - 2 * limit)..(2 * limit) :
                         Abs(k) <= 1 \/ Abs(k) >= 2 * limit - MaxRadius - 1}}

\* the radii too small to move a center that is not zero
TinyRadii == 1..TinySteps

\* radii on the half-degree grid, negative and zero included, and tiny ones
Radii == {h * Half : h \in (0 - MaxRadius)..MaxRadius}
         \cup TinyRadii \cup {0 - r : r \in TinyRadii}

\* the values of --radius: negative, zero, the default 0.5, the largest
MainRadii == {0 - Half, 0, Half, MaxRadius * Half}

\* One telemetry record of the upstream protocol with every field present: the
\* value at each position is found at no other position.
FullState ==
    <<Str(<<"a", "b", "c">>), Str(<<"U", "A", "L">>), Str(<<"D", "E">>), Num(1003), Num(1004),
      Num(5), Num(6), Num(7), Bool(FALSE), Num(9), Num(10), Num(11),
      Null, Num(13), Str(<<"7", "7">>), Bool(TRUE), Num(1016), Num(1017)>>

\* what the protocol may send instead at a position (from 0)
Alternatives(i) ==
    CASE i \in {5, 6, 7, 9, 10, 11, 13} -> {Null, Num(0)}
      [] i = 8 -> {Bool(TRUE)}
      [] i = 14 -> {Null}
      [] OTHER -> {}

VariedPositions == {5, 6, 7, 8, 9, 10, 11, 13, 14}

CallsignChars == {"U", " "}

Callsigns ==
    {Null, Num(7)} \cup
    {Str(s) : s \in UNION {[1..k -> CallsignChars] : k \in 0..MaxCallsign}}

WithAt(state, i, v) == [state EXCEPT ![i + 1] = v]

\* the records that differ from FullState at no more than n positions
RECURSIVE Varied(_)
Varied(n) ==
    IF n = 0 THEN {FullState}
    ELSE Varied(n - 1) \cup
         {WithAt(s, i, v) : <<s, i, v>> \in
             {<<s, i, v>> \in Varied(n - 1) \X VariedPositions \X {Null, Num(0), Bool(TRUE)} :
                 v \in Alternatives(i)}}

StateLengths == {0, 3} \cup ((STATE_LEN - MaxShort)..(STATE_LEN + 1))

RawStates ==
    {SubSeq(WithAt(s, 1, c), 1, n) :
        s \in Varied(MaxVaried), c \in Callsigns, n \in StateLengths}

\* bounds of a box on, next to and beyond each limit
BoundsNear(limit) ==
    {d * Scale : d \in {0 - limit - 1, 0 - limit, 0, 1, limit, limit + 1}}
    \cup {Half}

\* the area service's answers: a transport failure, no states, a list of records
AreaResponses(records, n) ==
    {[kind |-> "error"], [kind |-> "json", states |-> Null]}
    \cup {[kind |-> "json", states |-> List(s)] : s \in UNION {[1..k -> records] : k \in 0..n}}

Blanks(n) == [i \in 1..n |-> " "]
Letters(n) == [i \in 1..n |-> "a"]

\* place names of every length around the limit, with and without blanks around
PlaceTexts ==
    {Blanks(i) \o Letters(j) \o Blanks(k) :
        i \in 0..MaxPad, k \in 0..MaxPad,
        j \in (0..2) \cup ((MAX_PLACE_LENGTH - 2 * MaxPad)..(MAX_PLACE_LENGTH + 1))}
    \cup {Blanks(MAX_PLACE_LENGTH + 1), <<"a", " ", "a">>, <<" ", "a", " ", "a", " ">>}

GeoEntry(lat, lon) == [lat |-> lat, lon |-> lon, display_name |-> Str(<<"A", ",", " ", "B">>)]

\* the geocoding service's answers: a transport failure, no match, a match, a
\* match without a name, with a latitude that is no number, beyond the poles,
\* a boolean
GeoResponses ==
    {[kind |-> "error"],
     [kind |-> "json", data |-> List(<<>>)],
     [kind |-> "json", data |-> List(<<GeoEntry(Str(<<"1", ".", "5">>), Str(<<"-", "9">>))>>)],
     [kind |-> "json", data |-> List(<<GeoEntry(Str(<<"8", "9">>), Str(<<"1", "8", "0">>)),
                                     GeoEntry(Str(<<"0">>), Str(<<"0">>))>>)],
     [kind |-> "json", data |-> List(<<[lat |-> Str(<<"1">>), lon |-> Str(<<"1">>)]>>)],
     [kind |-> "json", data |-> List(<<GeoEntry(Str(<<"x">>), Str(<<"1">>))>>)],
     [kind |-> "json", data |-> List(<<GeoEntry(Str(<<"9", "1">>), Str(<<"1">>))>>)],
     [kind |-> "json", data |-> List(<<GeoEntry(Bool(TRUE), Str(<<"1">>))>>)]}

\* the values of --coords: well formed, at a corner of the domain, with a
\* negative zero, out of range, malformed, empty
CoordArgs ==
    {<<"1", ".", "5", ",", " ", "-", "9">>,
     <<"9", "0", ",", "-", "1", "8", "0">>,
     <<"-", "0", ",", "0">>,
     <<"9", "1", ",", "1">>,
     <<"1", ",", "x">>,
     <<"1">>,
     <<>>}

\* the values of --place: a name, a name with blanks around, blank, empty, too long
PlaceArgs ==
    {<<"a", " ", "a">>, <<" ", "a", " ">>, <<" ">>, <<>>, Letters(MAX_PLACE_LENGTH + 1)}

\* the text of a center, as the user writes it after --coords
CoordText(lat, lon) == FloatText(lat) \o <<",">> \o FloatText(lon)

\* the texts of two numbers, each at, inside or beyond the ends of its range:
\* every combination of a latitude and a longitude in and out of range
LimitTexts ==
    {CoordText(la, lo) : la \in AroundLimits(LatLimit), lo \in AroundLimits(LonLimit)}

\* --coords at every center around the origin and near the limits, with every
\* radius
CenterArgs ==
    {[coords |-> Str(CoordText(la, lo)), place |-> Null, radius |-> r] :
        la \in GridNear(LatLimit), lo \in GridNear(LonLimit), r \in Radii}

\* the command lines argparse lets through: exactly one of --coords and --place
MainArgs ==
    {[coords |-> Str(c), place |-> Null, radius |-> r] : c \in CoordArgs, r \in MainRadii}
    \cup {[coords |-> Null, place |-> Str(p), radius |-> r] : p \in PlaceArgs, r \in MainRadii}

\* the records of an area answer: complete, without callsign, altitude and
\* velocity, with a blank callsign, without position, with a text for
\* latitude, too short
MainRecords ==
    {FullState,
     WithAt(WithAt(WithAt(FullState, 1, Null), 7, Null), 9, Null),
     WithAt(FullState, 1, Str(<<" ">>)),
     WithAt(WithAt(FullState, 6, Null), 7, Null),
     WithAt(FullState, 6, Str(<<"x">>)),
     SubSeq(FullState, 1, STATE_LEN - 1)}

-----------------------------------------------------------------------------
(* The specifications of single calls *)

Pending == [done |-> FALSE]
NoCall == [fn |-> "none"]

MainIdle ==
    /\ pc = "idle"
    /\ args = [coords |-> Null, place |-> Null, radius |-> 0]
    /\ env = [geo |-> Null, area |-> Null]
    /\ loc = Null
    /\ box = Null
    /\ aircraft = <<>>
    /\ after = "none"
    /\ exc = Null
    /\ geoSession = "none"
    /\ apiSession = "none"
    /\ geoRequests = <<>>
    /\ apiRequests = <<>>
    /\ stdout = <<>>
    /\ stderr = <<>>
    /\ ret = Null

InitParse ==
    /\ RateIdle
    /\ call \in {[fn |-> "parse_coordinates", coord_str |-> s] : s \in CoordTexts \cup LimitTexts}
    /\ result = Pending
    /\ MainIdle

CallParseCoordinates ==
    /\ call.fn = "parse_coordinates"
    /\ result = Pending
    /\ result' = [done |-> TRUE, out |-> parse_coordinates(call.coord_str)]
    /\ UNCHANGED <<call, mainVars, rateVars>>

SpecParse == InitParse /\ [][CallParseCoordinates]_vars

InitBox ==
    /\ RateIdle
    /\ call \in {[fn |-> "create_bounding_box", lat |-> la, lon |-> lo, radius_deg |-> r] :
                    la \in GridNear(LatLimit), lo \in GridNear(LonLimit), r \in Radii}
    /\ result = Pending
    /\ MainIdle

CallCreateBoundingBox ==
    /\ call.fn = "create_bounding_box"
    /\ result = Pending
    /\ result' = [done |-> TRUE,
                  out |-> create_bounding_box(call.lat, call.lon, call.radius_deg)]
    /\ UNCHANGED <<call, mainVars, rateVars>>

SpecBox == InitBox /\ [][CallCreateBoundingBox]_vars

InitNorm ==
    /\ RateIdle
    /\ call \in {[fn |-> "_parse_state_vector", state |-> s] : s \in RawStates}
    /\ result = Pending
    /\ MainIdle

CallParseStateVector ==
    /\ call.fn = "_parse_state_vector"
    /\ result = Pending
    /\ result' = [done |-> TRUE, out |-> parse_state_vector(call.state)]
    /\ UNCHANGED <<call, mainVars, rateVars>>

SpecNorm == InitNorm /\ [][CallParseStateVector]_vars

InitArea ==
    /\ RateIdle
    /\ call \in {[fn |-> "get_aircraft_in_area", lat_min |-> a, lon_min |-> b,
                  lat_max |-> c, lon_max |-> d, response |-> r] :
                    a \in BoundsNear(LatLimit), b \in BoundsNear(LonLimit),
                    c \in BoundsNear(LatLimit), d \in BoundsNear(LonLimit),
                    r \in AreaResponses({FullState}, 1)}
    /\ result = Pending
    /\ MainIdle

CallGetAircraftInArea ==
    /\ call.fn = "get_aircraft_in_area"
    /\ result = Pending
    /\ LET r == get_aircraft_in_area(call.lat_min, call.lon_min, call.lat_max, call.lon_max,
                                     call.response)
       IN  result' = [done |-> TRUE, out |-> r.out, requests |-> r.requests]
    /\ UNCHANGED <<call, mainVars, rateVars>>

SpecArea == InitArea /\ [][CallGetAircraftInArea]_vars

\* the Geocoder is new, or has just sent a request
InitGeocode ==
    /\ now = Second
    /\ lockOwner = NoThread
    /\ lastRequestTime \in {0, Second}
    /\ thread = [t \in Threads |-> ThreadStart]
    /\ sentAt = <<>>
    /\ call \in {[fn |-> "geocode", place |-> p, response |-> r] :
                    p \in {Null} \cup {Str(s) : s \in PlaceTexts}, r \in GeoResponses}
    /\ result = Pending
    /\ MainIdle

CallGeocode ==
    /\ call.fn = "geocode"
    /\ result = Pending
    /\ LET r == geocode(call.place, call.response, now, lastRequestTime)
       IN  /\ result' = [done |-> TRUE, out |-> r.out, requests |-> r.requests]
           /\ now' = r.clock
           /\ lastRequestTime' = r.last_request_time
           /\ sentAt' = sentAt \o [i \in 1..Len(r.requests) |-> r.clock]
    /\ UNCHANGED <<call, mainVars, lockOwner, thread>>

SpecGeocode == InitGeocode /\ [][CallGeocode]_vars

-----------------------------------------------------------------------------
(* The specification of main *)

\* the answers of the geocoding service that a command line can meet: with a
\* non-empty --coords main builds no Geocoder, and one answer stands for all
MainGeoResponses(a) == IF Truthy(a.coords) THEN {[kind |-> "error"]} ELSE GeoResponses

InitMain ==
    /\ RateIdle
    /\ call = NoCall
    /\ result = Pending
    /\ pc = "start"
    /\ args \in MainArgs
    /\ env \in {[geo |-> g, area |-> a] :
                  g \in MainGeoResponses(args), a \in AreaResponses(MainRecords, MaxStates)}
    /\ loc = Null
    /\ box = Null
    /\ aircraft = <<>>
    /\ after = "none"
    /\ exc = Null
    /\ geoSession = "none"
    /\ apiSession = "none"
    /\ geoRequests = <<>>
    /\ apiRequests = <<>>
    /\ stdout = <<>>
    /\ stderr = <<>>
    /\ ret = Null

NextMain ==
    \/ MainParseCoords
    \/ MainGeocoderEnter
    \/ MainGeocode
    \/ MainGeocoderExit
    \/ MainCreateBox
    \/ MainApiEnter
    \/ MainQuery
    \/ MainApiExit
    \/ MainDisplay
    \/ MainExcept

SpecMain == InitMain /\ [][NextMain]_vars

-----------------------------------------------------------------------------
(* The specification of threads sharing one Geocoder *)

InitRate ==
    /\ RateIdle
    /\ call = NoCall
    /\ result = Pending
    /\ MainIdle

NextRate ==
    \/ \E t \in Threads : GeocodeEnter(t)
    \/ \E t \in Threads : GeocodeAcquire(t)
    \/ \E t \in Threads : GeocodeMeasure(t)
    \/ \E t \in Threads : GeocodeWake(t)
    \/ \E t \in Threads : GeocodeStamp(t)
    \/ \E t \in Threads : GeocodeSend(t)
    \/ \E t \in Threads : GeocodeReturn(t)
    \/ Tick

SpecRate == InitRate /\ [][NextRate]_vars

-----------------------------------------------------------------------------
(* The specification of main in coordinate mode, over every center *)

InitCoords ==
    /\ RateIdle
    /\ call = NoCall
    /\ result = Pending
    /\ pc = "start"
    /\ args \in CenterArgs
    /\ env \in {[geo |-> [kind |-> "error"], area |-> a] : a \in AreaResponses({FullState}, 1)}
    /\ loc = Null
    /\ box = Null
    /\ aircraft = <<>>
    /\ after = "none"
    /\ exc = Null
    /\ geoSession = "none"
    /\ apiSession = "none"
    /\ geoRequests = <<>>
    /\ apiRequests = <<>>
    /\ stdout = <<>>
    /\ stderr = <<>>
    /\ ret = Null

NextCoords ==
    \/ MainParseCoords
    \/ MainCreateBox
    \/ MainApiEnter
    \/ MainQuery
    \/ MainApiExit
    \/ MainDisplay
    \/ MainExcept

SpecCoords == InitCoords /\ [][NextCoords]_vars

-----------------------------------------------------------------------------
(* Claims about create_bounding_box, under SpecBox *)

BoxDone == call.fn = "create_bounding_box" /\ result.done

LatLo == (0 - LatLimit) * Scale
LatHi == LatLimit * Scale
LonLo == (0 - LonLimit) * Scale
LonHi == LonLimit * Scale

\* the center and radius leave every bound inside the limits
BoxInterior ==
    /\ call.radius_deg > 0
    /\ LatLo + call.radius_deg < call.lat /\ call.lat < LatHi - call.radius_deg
    /\ LonLo + call.radius_deg < call.lon /\ call.lon < LonHi - call.radius_deg

\* each bound is the center minus or plus the radius, as the program computes
\* it, replaced by the limit it would pass
BoxClamped ==
    LET b == result.out
        la == call.lat
        lo == call.lon
        r == call.radius_deg
    IN  /\ Len(b) = 4
        /\ b[1] = (IF fsub(la, r) < LatLo THEN LatLo ELSE fsub(la, r))
        /\ b[2] = (IF fsub(lo, r) < LonLo THEN LonLo ELSE fsub(lo, r))
        /\ b[3] = (IF fadd(la, r) > LatHi THEN LatHi ELSE fadd(la, r))
        /\ b[4] = (IF fadd(lo, r) > LonHi THEN LonHi ELSE fadd(lo, r))
        /\ BoxInterior => b = <<fsub(la, r), fsub(lo, r), fadd(la, r), fadd(lo, r)>>

\* the four sums of the center and the radius are floats: nothing is rounded
SumsExact ==
    \A c \in {call.lat, call.lon} :
        /\ fsub(c, call.radius_deg) = c - call.radius_deg
        /\ fadd(c, call.radius_deg) = c + call.radius_deg

\* C1 as claimed: the box is (lat_min, lon_min, lat_max, lon_max), each bound
\* the center minus or plus the radius, replaced by the limit it would pass; for
\* every positive radius and every center more than the radius away from every
\* limit no bound is clamped and both sides measure twice the radius.
C1_Original ==
    BoxDone =>
        /\ BoxClamped
        /\ BoxInterior =>
                /\ fsub(result.out[3], result.out[1]) = FloatRound(2 * call.radius_deg)
                /\ fsub(result.out[4], result.out[2]) = FloatRound(2 * call.radius_deg)

\* C1 as amended: the bounds are as claimed, and an unclamped box measures twice
\* the radius on both sides whenever the four sums of the center and the radius
\* are computed without rounding.
C1_BoxFormula ==
    BoxDone =>
        LET b == result.out
            r == call.radius_deg
        IN  /\ BoxClamped
            /\ (BoxInterior /\ SumsExact) =>
                    /\ b[3] - b[1] = 2 * r
                    /\ b[4] - b[2] = 2 * r

\* an unclamped box right next to the limits, and of the largest radius
C1_Witness ==
    /\ BoxDone
    /\ BoxInterior
    /\ SumsExact
    /\ call.radius_deg = MaxRadius * Half
    /\ call.lat = LatHi - call.radius_deg - Half
    /\ call.lon = LonLo + call.radius_deg + Half
    /\ result.out[3] - result.out[1] = 2 * call.radius_deg

BoxWellFormed(b) ==
    /\ b[1] < b[3]
    /\ b[2] < b[4]
    /\ LatLo <= b[1] /\ b[1] <= LatHi
    /\ LatLo <= b[3] /\ b[3] <= LatHi
    /\ LonLo <= b[2] /\ b[2] <= LonHi
    /\ LonLo <= b[4] /\ b[4] <= LonHi

\* C2 as claimed: every box built from a valid center, whatever the radius (zero
\* and negative included), has lat_min < lat_max, lon_min < lon_max and all four
\* bounds within their ranges.
C2_Original == BoxDone => BoxWellFormed(result.out)

\* the radius moves the center: below and above it the program computes two
\* different floats
RadiusKept(lat, lon, radius_deg) ==
    /\ fsub(lat, radius_deg) < fadd(lat, radius_deg)
    /\ fsub(lon, radius_deg) < fadd(lon, radius_deg)

\* C2 as amended: every box built from a valid center with a radius greater than
\* zero that is not lost in the sums with the center has lat_min < lat_max,
\* lon_min < lon_max and all four bounds within range.
C2_PositiveRadius ==
    (BoxDone /\ call.radius_deg > 0 /\ RadiusKept(call.lat, call.lon, call.radius_deg))
        => BoxWellFormed(result.out)

\* a positive radius at a corner of the domain: clamped on two sides
C2_Witness ==
    /\ BoxDone
    /\ call.radius_deg > 0
    /\ RadiusKept(call.lat, call.lon, call.radius_deg)
    /\ call.lat = LatHi
    /\ call.lon = LonLo
    /\ result.out[3] = LatHi
    /\ result.out[2] = LonLo

-----------------------------------------------------------------------------
(* Claims about parse_coordinates, under SpecParse *)

ParseDone == call.fn = "parse_coordinates" /\ result.done

Commas(s) == Count(s, {","})
LatText(s) == Split(s)[1]
LonText(s) == Split(s)[2]

\* C3: the text parses exactly when it has two comma-separated parts, both
\* numeric, latitude within [-90, 90] and longitude within [-180, 180]; otherwise
\* a ValueError whose cause is the first failing check in the order: token count,
\* latitude parse, longitude parse, latitude range, longitude range.
C3_CheckOrder ==
    ParseDone =>
        LET s == call.coord_str
            out == result.out
            two == Commas(s) = 1
            latNum == IsFloatText(LatText(s))
            lonNum == IsFloatText(LonText(s))
            latIn == LatLo <= FloatValue(LatText(s)) /\ FloatValue(LatText(s)) <= LatHi
            lonIn == LonLo <= FloatValue(LonText(s)) /\ FloatValue(LonText(s)) <= LonHi
        IN  /\ ~two => out = Raised("ValueError", "format")
            /\ (two /\ ~latNum) => out = Raised("ValueError", "lat_parse")
            /\ (two /\ latNum /\ ~lonNum) => out = Raised("ValueError", "lon_parse")
            /\ (two /\ latNum /\ lonNum /\ ~latIn) => out = Raised("ValueError", "lat_range")
            /\ (two /\ latNum /\ lonNum /\ latIn /\ ~lonIn)
                    => out = Raised("ValueError", "lon_range")
            /\ out.ok <=> (two /\ latNum /\ lonNum /\ latIn /\ lonIn)
            /\ out.ok => (out.lat = FloatValue(LatText(s)) /\ out.lon = FloatValue(LonText(s)))

\* a latitude out of range with a longitude that is no number: a parse failure
C3_Witness ==
    /\ ParseDone
    /\ Commas(call.coord_str) = 1
    /\ IsFloatText(LatText(call.coord_str))
    /\ FloatValue(LatText(call.coord_str)) > LatHi
    /\ ~IsFloatText(LonText(call.coord_str))
    /\ result.out = Raised("ValueError", "lon_parse")

-----------------------------------------------------------------------------
(* Claims about _parse_state_vector, under SpecNorm *)

NormDone == call.fn = "_parse_state_vector" /\ result.done

NormReturned == NormDone /\ Len(call.state) >= STATE_LEN /\ result.out.ok

IsText(x) == x.t = "str"

\* a string that is not empty once its surrounding whitespace is removed
NonBlank(x) == IsText(x) /\ Strip(x.s) # <<>>

\* None, the empty string, or a string of whitespace only
BlankOrAbsent(x) == IsNull(x) \/ (IsText(x) /\ Strip(x.s) = <<>>)

\* C4 as claimed: the callsign of a normalized record is None or a non-empty
\* string without surrounding whitespace; a callsign that is non-empty once
\* trimmed is kept trimmed, and one that is null, empty or whitespace only
\* becomes None, never the empty string.
C4_Original ==
    NormReturned =>
        LET raw == At(call.state, 1)
            cs == result.out.value.callsign
        IN  /\ IsNull(cs) \/ (IsText(cs) /\ cs.s # <<>> /\ Strip(cs.s) = cs.s)
            /\ NonBlank(raw) => cs = Str(Strip(raw.s))
            /\ BlankOrAbsent(raw) => cs = Null

SurfacedKeys ==
    {"icao24", "callsign", "origin_country", "longitude", "latitude", "baro_altitude",
     "on_ground", "velocity", "true_track", "vertical_rate", "geo_altitude", "squawk"}

NumericKeys ==
    {"longitude", "latitude", "baro_altitude", "velocity", "true_track", "vertical_rate",
     "geo_altitude"}

\* the position (from 0) a key of the normalized record is read from
PositionOf(k) ==
    CASE k = "icao24" -> 0 [] k = "callsign" -> 1 [] k = "origin_country" -> 2
      [] k = "longitude" -> 5 [] k = "latitude" -> 6 [] k = "baro_altitude" -> 7
      [] k = "on_ground" -> 8 [] k = "velocity" -> 9 [] k = "true_track" -> 10
      [] k = "vertical_rate" -> 11 [] k = "geo_altitude" -> 13 [] k = "squawk" -> 14

\* the unsurfaced positions whose value in the enumerated records occurs at no
\* surfaced position (12 holds null and 15 a boolean, as surfaced fields may)
UniqueUnsurfaced == {3, 4, 16}

\* C5: a record of at least 17 positions with a string or null callsign is
\* normalized; positions 0, 2, 5, 6, 7, 8, 9, 10, 11, 13, 14 are copied unchanged
\* into their keys, so a null number stays null and a zero stays zero, and the
\* values at positions 3, 4, 12, 15, 16 are not in the result.
C5_FieldsCopied ==
    (NormDone /\ Len(call.state) >= STATE_LEN) =>
        LET s == call.state
            out == result.out
        IN  /\ out.ok <=> (IsNull(At(s, 1)) \/ IsText(At(s, 1)) \/ ~Truthy(At(s, 1)))
            /\ out.ok =>
                /\ DOMAIN out.value = SurfacedKeys
                /\ \A k \in SurfacedKeys \ {"callsign"} : out.value[k] = At(s, PositionOf(k))
                /\ \A k \in NumericKeys :
                        /\ IsNull(out.value[k]) <=> IsNull(At(s, PositionOf(k)))
                        /\ out.value[k] = Num(0) <=> At(s, PositionOf(k)) = Num(0)
                /\ \A i \in UniqueUnsurfaced : \A k \in SurfacedKeys : out.value[k] # At(s, i)

\* a normalized record with an absent latitude and a zero longitude
C5_Witness ==
    /\ NormReturned
    /\ At(call.state, 6) = Null
    /\ At(call.state, 5) = Num(0)
    /\ result.out.value.latitude = Null
    /\ result.out.value.longitude = Num(0)

-----------------------------------------------------------------------------
(* Claims about get_aircraft_in_area, under SpecArea *)

AreaDone == call.fn = "get_aircraft_in_area" /\ result.done

BoxCauses == {"lat_range", "lon_range", "lat_order", "lon_order"}

\* C7: a latitude bound outside [-90, 90], a longitude bound outside [-180, 180],
\* lat_min >= lat_max or lon_min >= lon_max raises ValueError with no request
\* issued, the error being that of the first failing check in this order; when
\* all four pass exactly one request is issued, with lamin, lomin, lamax, lomax
\* set to lat_min, lon_min, lat_max, lon_max.
C7_BoxValidation ==
    AreaDone =>
        LET a == call.lat_min
            b == call.lon_min
            c == call.lat_max
            d == call.lon_max
            out == result.out
            latRange == LatLo <= a /\ a <= LatHi /\ LatLo <= c /\ c <= LatHi
            lonRange == LonLo <= b /\ b <= LonHi /\ LonLo <= d /\ d <= LonHi
            rejected == ~out.ok /\ out.type = "ValueError" /\ out.cause \in BoxCauses
        IN  /\ ~latRange => out = Raised("ValueError", "lat_range")
            /\ (latRange /\ ~lonRange) => out = Raised("ValueError", "lon_range")
            /\ (latRange /\ lonRange /\ a >= c) => out = Raised("ValueError", "lat_order")
            /\ (latRange /\ lonRange /\ a < c /\ b >= d) => out = Raised("ValueError", "lon_order")
            /\ rejected => result.requests = <<>>
            /\ (latRange /\ lonRange /\ a < c /\ b < d) =>
                    /\ ~rejected
                    /\ result.requests = <<[lamin |-> a, lomin |-> b, lamax |-> c, lomax |-> d]>>

\* a box failing the latitude range, the longitude range and both orders at once
C7_Witness ==
    /\ AreaDone
    /\ call.lat_min > LatHi
    /\ call.lon_min > LonHi
    /\ call.lat_min >= call.lat_max
    /\ call.lon_min >= call.lon_max
    /\ result.out = Raised("ValueError", "lat_range")
    /\ result.requests = <<>>

-----------------------------------------------------------------------------
(* Claims about geocode, under SpecGeocode *)

GeoDone == call.fn = "geocode" /\ result.done

PlaceCauses == {"place_empty", "place_too_long"}

\* C8: a place that is empty, whitespace only or longer than 200 characters is
\* rejected with ValueError and no request is issued; every other place passes
\* and leads to exactly one request, whose query is the trimmed place name.
C8_PlaceValidation ==
    GeoDone =>
        LET p == call.place
            out == result.out
            blank == IsNull(p) \/ Strip(p.s) = <<>>
            long == ~IsNull(p) /\ Len(p.s) > MAX_PLACE_LENGTH
            rejected == ~out.ok /\ out.type = "ValueError" /\ out.cause \in PlaceCauses
        IN  /\ (blank \/ long) => (rejected /\ result.requests = <<>>)
            /\ ~(blank \/ long) =>
                    /\ ~rejected
                    /\ Len(result.requests) = 1
                    /\ result.requests[1].q = Strip(p.s)

\* a name of exactly 200 characters, blanks around it included, is looked up
C8_Witness ==
    /\ GeoDone
    /\ ~IsNull(call.place)
    /\ Len(call.place.s) = MAX_PLACE_LENGTH
    /\ Strip(call.place.s) # call.place.s
    /\ Len(result.requests) = 1
    /\ result.requests[1].q = Strip(call.place.s)

-----------------------------------------------------------------------------
(* Claims about main, under SpecMain *)

MainDone == pc = "done"

\* the area request was issued and answered with a list of records
AreaStates ==
    IF apiRequests # <<>> /\ env.area.kind = "json" /\ Truthy(env.area.states)
    THEN env.area.states.l
    ELSE <<>>

IsShort(state) == Len(state) < STATE_LEN

AircraftLines == {"Found aircraft near", "Callsign", "ICAO24", "Country", "Position",
                  "Altitude", "Velocity", "Status"}

NoAircraftPrinted == \A i \in 1..Len(stdout) : stdout[i].line \notin AircraftLines

\* the first record of the answer that is too short
FirstShort == CHOOSE i \in 1..Len(AreaStates) :
                 /\ IsShort(AreaStates[i])
                 /\ \A j \in 1..(i - 1) : ~IsShort(AreaStates[j])

\* C6: a record of fewer than 17 positions, at whatever index of the answer,
\* fails the whole query with an error naming 17 and the actual count:
\* get_aircraft_in_area returns no record, main prints no aircraft entry and
\* returns 1.
C6_NoPartialSuccess ==
    (\E i \in 1..Len(AreaStates) : IsShort(AreaStates[i])) =>
        /\ aircraft = <<>>
        /\ NoAircraftPrinted
        /\ pc \notin {"display"}
        /\ exc = [ok |-> FALSE, type |-> "ValueError", cause |-> "state_length",
                  expected |-> 17, got |-> Len(AreaStates[FirstShort])]
        /\ MainDone => (ret = Num(1) /\ stderr = <<Line("Error", exc)>>)

\* main has returned on an answer whose second record is the short one
C6_Witness ==
    /\ MainDone
    /\ Len(AreaStates) = 2
    /\ ~IsShort(AreaStates[1])
    /\ IsShort(AreaStates[2])
    /\ ret = Num(1)
    /\ exc.got = STATE_LEN - 1

\* the geocoding request was issued and answered with an empty list
GeocodeNotFound ==
    /\ geoRequests # <<>>
    /\ env.geo.kind = "json"
    /\ env.geo.data = List(<<>>)

\* C9: when the geocoding service has no match, no exception is raised; main
\* prints 'Could not find location' to the error stream, returns 1, and neither
\* builds a bounding box nor issues the area query.
C9_NotFoundTerminal ==
    GeocodeNotFound =>
        /\ exc = Null
        /\ pc \in {"geo_exit", "done"}
        /\ stderr = <<Line("Error: Could not find location", args.place)>>
        /\ box = Null
        /\ apiSession = "none"
        /\ apiRequests = <<>>
        /\ MainDone => ret = Num(1)

\* main has returned after a lookup without a match
C9_Witness ==
    /\ MainDone
    /\ GeocodeNotFound
    /\ ret = Num(1)
    /\ geoSession = "closed"
    /\ box = Null

\* a record main's area query accepts: long enough, callsign a string or null
Parses(state) == ~IsShort(state) /\ (IsNull(At(state, 1)) \/ IsText(At(state, 1)))

\* the location was resolved and the area query returned a list
ResolvedAndQueried ==
    /\ loc # Null
    /\ apiRequests # <<>>
    /\ env.area.kind = "json"
    /\ \A i \in 1..Len(AreaStates) : Parses(AreaStates[i])

\* C10 as claimed: main returns 0 or 1; 0 exactly when the location was resolved
\* and the area query succeeded, printing 'No aircraft found' when the query
\* returned no aircraft; 1, with a line on the error stream, otherwise.
C10_Original ==
    MainDone =>
        /\ ret \in {Num(0), Num(1)}
        /\ ret = Num(0) <=> ResolvedAndQueried
        /\ (ret = Num(0) /\ aircraft = <<>>)
                => stdout[Len(stdout)] = Line("No aircraft found near", loc.location_name)
        /\ ret = Num(1) => Len(stderr) = 1

-----------------------------------------------------------------------------
(* Claims about the rate limiter, under SpecRate *)

\* the timestamps the limiter records are a second apart: the lock orders them
RateSlotsApart ==
    \A t \in Threads :
        thread[t].pc = "stamp" => now - lastRequestTime >= Second

\* C11 as claimed: whatever the interleaving of the threads calling geocode on
\* one Geocoder, any two requests it issues are at least one second apart.
C11_Original ==
    \A i \in 1..Len(sentAt) : \A j \in 1..Len(sentAt) :
        i < j => sentAt[j] - sentAt[i] >= Second

-----------------------------------------------------------------------------
(* Claims about the calls main makes, under SpecMain *)

\* the position of a statement of main in the order of the function's text
Rank(p) ==
    CASE p = "start" -> 0 [] p = "geocode" -> 1 [] p = "geo_exit" -> 2 [] p = "box" -> 3
      [] p = "api_enter" -> 4 [] p = "query" -> 5 [] p = "api_exit" -> 6
      [] p = "display" -> 7 [] p = "except" -> 8 [] p = "done" -> 9

\* main is in, or has left, the call of geocode / of get_aircraft_in_area
GeocodeCalled == geoSession # "none" /\ pc # "geocode"
AreaCalled == apiSession # "none" /\ pc # "query"

\* main is inside the geocoder's scoped block
InGeocoding == pc \in {"geocode", "geo_exit"} \/ geoSession = "open"

\* --coords holds a string that parse_coordinates accepts
WellFormedCoords == args.coords.t = "str" /\ parse_coordinates(args.coords.s).ok

\* a call has failed: an exception is in flight or the lookup found nothing
Failed == exc # Null \/ after = "return 1" \/ stderr # <<>>

CallsInOrder ==
    /\ Len(geoRequests) <= 1
    /\ Len(apiRequests) <= 1
    /\ (pc \in {"api_enter", "query", "api_exit"} \/ apiSession # "none" \/ apiRequests # <<>>)
            => ~InGeocoding
    /\ WellFormedCoords => (geoSession = "none" /\ geoRequests = <<>> /\ ~InGeocoding)

NoCallRepeated ==
    /\ Rank(pc') > Rank(pc)
    /\ GeocodeCalled => (geoRequests' = geoRequests /\ pc' # "geocode")
    /\ AreaCalled => (apiRequests' = apiRequests /\ pc' # "query")
    /\ Failed => (geoRequests' = geoRequests /\ apiRequests' = apiRequests
                  /\ pc' \notin {"geocode", "query"})

\* C12: main makes at most one geocoding call and at most one area call, each
\* issuing at most one request; the area call comes only after the geocoding
\* block has been left; after a failure no call is made again; with a
\* well-formed --coords no geocoding call is made at all.
C12_CallsOnceInOrder == []CallsInOrder /\ [][NoCallRepeated]_vars

\* main has returned after one geocoding request and one area request, the
\* second of which failed
C12_Witness ==
    /\ MainDone
    /\ Len(geoRequests) = 1
    /\ Len(apiRequests) = 1
    /\ env.area.kind = "error"
    /\ exc = Raised("RequestException", "transport")
    /\ ret = Num(1)

\* main ended on an input-constraint error: a rejected place name, coordinate
\* string or bounding box
InputConstraintError ==
    /\ MainDone
    /\ exc # Null
    /\ exc.type = "ValueError"
    /\ exc.cause \in PlaceCauses \cup BoxCauses \cup {"format", "lat_parse", "lon_parse"}

\* C13 as claimed: in coordinate mode and in place mode alike, a run that ends
\* with an input-constraint error (place name empty or too long, bounding box
\* inverted or out of range as a zero or negative --radius makes it) has issued
\* no geocoding request and no area request.
C13_Original == InputConstraintError => (geoRequests = <<>> /\ apiRequests = <<>>)

-----------------------------------------------------------------------------
(* Claims about the display, under SpecMain *)

\* the area query was made and succeeded: aircraft holds the normalized records
QuerySucceeded ==
    /\ apiRequests # <<>>
    /\ env.area.kind = "json"
    /\ \A i \in 1..Len(AreaStates) : Parses(AreaStates[i])
    /\ pc \in {"display", "except", "done"}

\* the lines of one kind printed to standard output
Printed(kind) == {i \in 1..Len(stdout) : stdout[i].line = kind}

\* what the display prints for a callsign
CallsignShown(ac) == IF Truthy(ac.callsign) THEN ac.callsign ELSE Str(<<"N", "/", "A">>)

\* C14 as claimed: whenever the area query succeeds main renders every
\* normalized record without error and returns 0, records without latitude,
\* longitude, baro_altitude or velocity included, an absent callsign being shown
\* as 'N/A'.
C14_Original ==
    (MainDone /\ QuerySucceeded) =>
        /\ ret = Num(0)
        /\ exc = Null
        /\ stderr = <<>>
        /\ Cardinality(Printed("Callsign")) = Len(aircraft)
        /\ Cardinality(Printed("Position")) = Len(aircraft)
        /\ \A k \in 1..Len(aircraft) :
              \E i \in Printed("Callsign") : stdout[i].v = CallsignShown(aircraft[k])

-----------------------------------------------------------------------------
(* Claims about the transport sessions, under SpecMain *)

\* C15: a session is open only inside its scoped block; when main has returned,
\* by whatever path, every session it opened has been closed; and the area
\* client's session is not opened before the geocoder's has been closed.
C15_SessionsReleased ==
    /\ geoSession = "open" <=> pc \in {"geocode", "geo_exit"}
    /\ apiSession = "open" <=> pc \in {"query", "api_exit"}
    /\ apiSession # "none" => geoSession \in {"none", "closed"}
    /\ MainDone => /\ geoSession \in {"none", "closed"}
                   /\ apiSession \in {"none", "closed"}
                   /\ geoSession = "closed" <=> ~Truthy(args.coords)
                   /\ apiSession = "closed" <=> box # Null

\* main has returned after a transport exception inside the geocoder's block
C15_Witness ==
    /\ MainDone
    /\ exc = Raised("RequestException", "transport")
    /\ Len(geoRequests) = 1
    /\ geoSession = "closed"
    /\ apiSession = "none"
    /\ ret = Num(1)

-----------------------------------------------------------------------------
(* Claims about the input mode, under SpecMain *)

CoordsSupplied == args.coords # Null
PlaceSupplied == args.place # Null

\* the outcome of parse_coordinates on --coords is what main went on with
ResolvedByParsing ==
    LET r == parse_coordinates(args.coords.s)
    IN  IF r.ok
        THEN loc = [lat |-> r.lat, lon |-> r.lon, location_name |-> coords_name(r)]
        ELSE exc = r /\ loc = Null

\* C16 as claimed: when --coords is the option supplied, whatever string it
\* holds (the empty string included), main resolves the location with
\* parse_coordinates and neither constructs nor calls the Geocoder; the
\* geocoder is used only when --place is the option supplied.
C16_Original ==
    /\ CoordsSupplied =>
          /\ geoSession = "none"
          /\ geoRequests = <<>>
          /\ ~InGeocoding
          /\ pc # "start" => ResolvedByParsing
    /\ geoSession # "none" => PlaceSupplied

-----------------------------------------------------------------------------
(* Claims about the box main builds and queries, under SpecCoords *)

\* main is past the call of get_aircraft_in_area
Queried == box # Null /\ pc \in {"api_exit", "display", "except", "done"}

\* the box main built passes the four checks, the area request is issued with
\* it, and no input-constraint error about the box is raised
BoxAccepted ==
    /\ box # Null =>
          /\ BoxWellFormed(box.l)
          /\ validate_bounding_box(box.l[1], box.l[2], box.l[3], box.l[4]) = Returned(Null)
    /\ Queried =>
          apiRequests = <<area_params(box.l[1], box.l[2], box.l[3], box.l[4])>>
    /\ exc # Null => ~(exc.type = "ValueError" /\ exc.cause \in BoxCauses)

\* C17 as claimed: for every center with latitude in [-90, 90] and longitude in
\* [-180, 180], poles and antimeridian included, and every radius greater than
\* zero, the box of create_bounding_box passes the four checks of
\* get_aircraft_in_area: no input-constraint error, and the area request is
\* issued.
C17_Original ==
    (loc # Null /\ args.radius > 0) => BoxAccepted

\* C17 as amended: the same for every radius greater than zero that is not lost
\* in the sums with the center.
C17_BoxAccepted ==
    (loc # Null /\ args.radius > 0 /\ RadiusKept(loc.lat, loc.lon, args.radius)) => BoxAccepted

\* main has queried the half-degree box around the north pole on the
\* antimeridian: clamped on two sides, and accepted
C17_Witness ==
    /\ MainDone
    /\ loc # Null
    /\ loc.lat = LatHi
    /\ loc.lon = LonHi
    /\ args.radius = Half
    /\ box = List(<<LatHi - Half, LonHi - Half, LatHi, LonHi>>)
    /\ apiRequests = <<area_params(LatHi - Half, LonHi - Half, LatHi, LonHi)>>
    /\ ret = Num(0)

=============================================================================
